---- MODULE Spec2Model ----
(***************************************************************************)
(* Pong with a fuzzy-logic AI paddle (src/pong_game.py).                   *)
(*                                                                         *)
(* Lengths and speeds are fixed-point numbers in tenths of a pixel (Scale  *)
(* units per pixel): every length, speed and increment of the program is a *)
(* multiple of 0.1.  The vertices of the output fuzzy sets (0.9 V, 0.7 V,  *)
(* 0.5 V) are kept in hundredths.  Membership degrees are integers in      *)
(* units of 1/MU.  Python computes on binary doubles; the model computes   *)
(* on exact decimals.                                                      *)
(***************************************************************************)
EXTENDS Integers, FiniteSets, Sequences, TLC

\* ------------------------------------------------------------------ bounds
\* Ticks explored from the constructed game.
MaxTicks == 102
\* Ticks explored from a mid-game state.
MidTicks == 3
\* Ticks explored from the constructed game where termination is checked.
ShortTicks == 12

\* --------------------------------------------------------------- constants
Scale == 10
ScreenW == 800
ScreenH == 400
Radius == 10
PaddleW == 100
PaddleH == 15
PaddleMargin == 40
AiY == 30
StartSpeed == 20
RestartSpeed == 30
Growth == 2
NarrowAbove == 6
MU == 2000

Width == ScreenW * Scale
Height == ScreenH * Scale
PlayerY == (ScreenH - PaddleMargin) * Scale

\* ----------------------------------------------------------------- helpers
Abs(v) == IF v < 0 THEN -v ELSE v

Sign(v) == IF v > 0 THEN 1 ELSE IF v < 0 THEN -1 ELSE 0

Min(a, b) == IF a < b THEN a ELSE b

Max(a, b) == IF a > b THEN a ELSE b

\* int(v) of a length: pygame.Rect truncates a float coordinate toward zero.
Trunc(v) == IF v >= 0 THEN v \div Scale ELSE -((-v) \div Scale)

\* Quotient rounded toward zero.
QuoT(n, d) == IF n >= 0 THEN n \div d ELSE -((-n) \div d)

\* pygame.Rect(x, y, w, h) in whole pixels.
Rect(x, y, w, h) == [x |-> Trunc(x), y |-> Trunc(y), w |-> w, h |-> h]

colliderect(a, b) ==
    /\ a.w # 0 /\ a.h # 0 /\ b.w # 0 /\ b.h # 0
    /\ a.x < b.x + b.w
    /\ a.y < b.y + b.h
    /\ a.x + a.w > b.x
    /\ a.y + a.h > b.y

\* clamp without its lower bound.
clampUpperOnly(x) == Min(x, Width - PaddleW * Scale)

\* Paddle.clamp
clamp(x) == Max(0, Min(x, Width - PaddleW * Scale))

\* ------------------------------------------------------- fuzzy controller
\* fuzz.trimf at a point v, as a degree in units of 1/unit; the widths used
\* divide unit * (v - a) exactly.
trimf(v, a, b, c, unit) ==
    IF v = b THEN unit
    ELSE IF a < v /\ v < b THEN ((v - a) * unit) \div (b - a)
    ELSE IF b < v /\ v < c THEN ((c - v) * unit) \div (c - b)
    ELSE 0

x_left(x) == trimf(x, -400 * Scale, -200 * Scale, 0, MU)

x_center(x, half) == trimf(x, -half, 0, half, MU)

x_right(x) == trimf(x, 0, 200 * Scale, 400 * Scale, MU)

y_close(y) == trimf(y, 0, 0, 20 * Scale, MU)

y_medium(y) == trimf(y, 0, 200 * Scale, 300 * Scale, MU)

y_far(y) == trimf(y, 200 * Scale, 200 * Scale, 400 * Scale, MU)

\* The controller built for a speed: the scale of the output sets and the
\* half-width of the centre input set.
create_paddle_simulation(speed_x, current_vel_max) ==
    [vel_max |-> current_vel_max,
     center  |-> IF Abs(speed_x) > NarrowAbove * Scale THEN 1 * Scale ELSE 10 * Scale]

\* The rule base with the consequents of the left and right rules exchanged.
StrengthsMirrored(sim, x, y) ==
    [left_fast  |-> Max(Min(x_right(x), y_medium(y)), Min(x_right(x), y_far(y))),
     left_slow  |-> Min(x_right(x), y_close(y)),
     stop       |-> x_center(x, sim.center),
     right_slow |-> Min(x_left(x), y_close(y)),
     right_fast |-> Max(Min(x_left(x), y_far(y)), Min(x_left(x), y_medium(y)))]

\* Firing strength of each output term (units of 1/MU); rules with the same
\* consequent accumulate by max, AND is min.
Strengths(sim, x, y) ==
    [left_fast  |-> Max(Min(x_left(x), y_far(y)), Min(x_left(x), y_medium(y))),
     left_slow  |-> Min(x_left(x), y_close(y)),
     stop       |-> x_center(x, sim.center),
     right_slow |-> Min(x_right(x), y_close(y)),
     right_fast |-> Max(Min(x_right(x), y_medium(y)), Min(x_right(x), y_far(y)))]

Terms == {"left_fast", "left_slow", "stop", "right_slow", "right_fast"}

\* Output term t at the universe sample u (both in hundredths), scaled by V.
OutputMf(t, u, V) ==
    CASE t = "left_fast"  -> trimf(u, -V, -V, -(9 * V) \div 10, V)
      [] t = "left_slow"  -> trimf(u, -(9 * V) \div 10, -(7 * V) \div 10, -(5 * V) \div 10, V)
      [] t = "stop"       -> trimf(u, -(5 * V) \div 10, 0, (5 * V) \div 10, V)
      [] t = "right_slow" -> trimf(u, (5 * V) \div 10, (7 * V) \div 10, (9 * V) \div 10, V)
      [] t = "right_fast" -> trimf(u, (9 * V) \div 10, V, V, V)

\* Support [a, c] of output term t, in hundredths.
Support(t, V) ==
    CASE t = "left_fast"  -> <<-V, -(9 * V) \div 10>>
      [] t = "left_slow"  -> <<-(9 * V) \div 10, -(5 * V) \div 10>>
      [] t = "stop"       -> <<-(5 * V) \div 10, (5 * V) \div 10>>
      [] t = "right_slow" -> <<(5 * V) \div 10, (9 * V) \div 10>>
      [] t = "right_fast" -> <<(9 * V) \div 10, V>>

\* Term t clipped at its firing strength s, at sample i of the velocity
\* universe (step 0.1), in units of 1/(MU * V).
Clipped(t, s, i, V) == Min(s * V, OutputMf(t, i * 10, V) * MU)

\* Sums of the clipped term over the samples lo..hi, by halving the range.
RECURSIVE SumArea(_, _, _, _, _)
SumArea(t, s, V, lo, hi) ==
    IF lo > hi THEN 0
    ELSE IF lo = hi THEN Clipped(t, s, lo, V)
    ELSE LET mid == (lo + hi) \div 2
         IN  SumArea(t, s, V, lo, mid) + SumArea(t, s, V, mid + 1, hi)

RECURSIVE SumMoment(_, _, _, _, _)
SumMoment(t, s, V, lo, hi) ==
    IF lo > hi THEN 0
    ELSE IF lo = hi THEN lo * Clipped(t, s, lo, V)
    ELSE LET mid == (lo + hi) \div 2
         IN  SumMoment(t, s, V, lo, mid) + SumMoment(t, s, V, mid + 1, hi)

\* Area and moment of the aggregated output set.  The five output terms have
\* supports with disjoint interiors, so the max-aggregate at a sample is the
\* one clipped term that is positive there, and the sums over the universe
\* are the sums of each fired term over its own support.
TermArea(t, s, V) ==
    IF s = 0 THEN 0
    ELSE SumArea(t, s, V, (Support(t, V)[1] + 9) \div 10, Support(t, V)[2] \div 10)

TermMoment(t, s, V) ==
    IF s = 0 THEN 0
    ELSE SumMoment(t, s, V, (Support(t, V)[1] + 9) \div 10, Support(t, V)[2] \div 10)

Area(str, V) ==
    TermArea("left_fast", str.left_fast, V) + TermArea("left_slow", str.left_slow, V)
    + TermArea("stop", str.stop, V) + TermArea("right_slow", str.right_slow, V)
    + TermArea("right_fast", str.right_fast, V)

Moment(str, V) ==
    TermMoment("left_fast", str.left_fast, V) + TermMoment("left_slow", str.left_slow, V)
    + TermMoment("stop", str.stop, V) + TermMoment("right_slow", str.right_slow, V)
    + TermMoment("right_fast", str.right_fast, V)

\* Centroid defuzzification (tenths, rounded toward zero); it raises
\* ("error") when no rule fires, the area then being zero.
Defuzz(str, V) ==
    IF Area(str, V) = 0 THEN [error |-> TRUE, value |-> 0]
    ELSE [error |-> FALSE, value |-> QuoT(Moment(str, V), Area(str, V))]

\* paddle_sim.compute() for the inputs x_diff = x, y_diff = y: the firing
\* strengths, evaluated once, then the centroid of the aggregated output.
compute(sim, x, y) ==
    CHOOSE r \in {Defuzz(str, sim.vel_max * 10) : str \in {Strengths(sim, x, y)}} : TRUE

\* -------------------------------------------------------------- game state
VARIABLES
    ball,           \* Ball: x, y, speed_x, speed_y
    player_paddle,  \* Paddle: x, speed (y, width, height never change)
    ai_paddle,      \* Paddle: x, speed
    paddle_sim,     \* the fuzzy controller in use
    running,        \* Game.running
    pc,             \* position in Game.run: "events", "update", "done"
    x_diff_val,     \* update's inputs to the last inference
    y_diff_val,
    move,           \* update's last AI displacement
    fuzzy_error,    \* whether the last inference raised
    hits,           \* paddles that registered a collision in the last update
    scored,         \* whether the last update called reset_ball
    last_hit,       \* paddle of the latest collision since the last (re)start
    bounces,        \* increase_speed calls since the last (re)start
    restarted,      \* whether reset_ball has ever run
    budget          \* ticks the model still explores

vars == <<ball, player_paddle, ai_paddle, paddle_sim, running, pc, x_diff_val,
          y_diff_val, move, fuzzy_error, hits, scored, last_hit, bounces,
          restarted, budget>>

\* The game as one record, for the steps of update.
Self ==
    [ball |-> ball, player_paddle |-> player_paddle, ai_paddle |-> ai_paddle,
     paddle_sim |-> paddle_sim, hits |-> {}, scored |-> FALSE]

\* Game.__init__
Constructed ==
    [ball |-> [x |-> (ScreenW \div 2) * Scale, y |-> (ScreenH \div 2) * Scale,
               speed_x |-> StartSpeed, speed_y |-> StartSpeed],
     player_paddle |-> [x |-> (ScreenW \div 2 + 100) * Scale, speed |-> StartSpeed],
     ai_paddle |-> [x |-> (ScreenW \div 2 - 50) * Scale, speed |-> StartSpeed],
     paddle_sim |-> create_paddle_simulation(StartSpeed, Abs(StartSpeed)),
     hits |-> {}, scored |-> FALSE]

\* increase_speed rebuilding the controller before it raises the speeds.
increase_speedStale(g) ==
    LET sx == Sign(g.ball.speed_x) * (Abs(g.ball.speed_x) + Growth)
        sy == Sign(g.ball.speed_y) * (Abs(g.ball.speed_y) + Growth)
    IN  [g EXCEPT !.ball.speed_x = sx,
                  !.ball.speed_y = sy,
                  !.player_paddle.speed = @ + Growth,
                  !.ai_paddle.speed = @ + Growth,
                  !.paddle_sim = create_paddle_simulation(g.ball.speed_x,
                                                          Abs(g.ball.speed_x))]

\* increase_speed dropping the sign of the velocity components.
increase_speedUnsigned(g) ==
    LET sx == Abs(g.ball.speed_x) + Growth
        sy == Abs(g.ball.speed_y) + Growth
    IN  [g EXCEPT !.ball.speed_x = sx,
                  !.ball.speed_y = sy,
                  !.player_paddle.speed = @ + Growth,
                  !.ai_paddle.speed = @ + Growth,
                  !.paddle_sim = create_paddle_simulation(sx, Abs(sx))]

\* Game.increase_speed
increase_speed(g) ==
    LET sx == Sign(g.ball.speed_x) * (Abs(g.ball.speed_x) + Growth)
        sy == Sign(g.ball.speed_y) * (Abs(g.ball.speed_y) + Growth)
    IN  [g EXCEPT !.ball.speed_x = sx,
                  !.ball.speed_y = sy,
                  !.player_paddle.speed = @ + Growth,
                  !.ai_paddle.speed = @ + Growth,
                  !.paddle_sim = create_paddle_simulation(sx, Abs(sx))]

\* reset_ball leaving the paddles' speeds as they are.
reset_ballKeepSpeeds(g) ==
    [g EXCEPT !.ball = [x |-> (ScreenW \div 2) * Scale, y |-> (ScreenH \div 2) * Scale,
                        speed_x |-> RestartSpeed, speed_y |-> RestartSpeed],
              !.player_paddle.x = 500 * Scale,
              !.ai_paddle.x = 400 * Scale,
              !.paddle_sim = create_paddle_simulation(RestartSpeed, RestartSpeed),
              !.scored = TRUE]

\* Game.reset_ball
reset_ball(g) ==
    [g EXCEPT !.ball = [x |-> (ScreenW \div 2) * Scale, y |-> (ScreenH \div 2) * Scale,
                        speed_x |-> RestartSpeed, speed_y |-> RestartSpeed],
              !.player_paddle = [x |-> 500 * Scale, speed |-> RestartSpeed],
              !.ai_paddle = [x |-> 400 * Scale, speed |-> RestartSpeed],
              !.paddle_sim = create_paddle_simulation(RestartSpeed, RestartSpeed),
              !.scored = TRUE]

Keys == SUBSET {"left", "right"}

\* update, lines 177-182: the player's paddle follows the held keys.
MovePlayer(g, keys) ==
    LET x1 == IF "left" \in keys THEN g.player_paddle.x - g.player_paddle.speed
              ELSE g.player_paddle.x
        x2 == IF "right" \in keys THEN x1 + g.player_paddle.speed ELSE x1
    IN  [g EXCEPT !.player_paddle.x = clamp(x2)]

\* update, line 185: Ball.move
BallMove(g) ==
    [g EXCEPT !.ball.x = @ + g.ball.speed_x, !.ball.y = @ + g.ball.speed_y]

\* update, lines 188-189: side walls
WallBounce(g) ==
    IF g.ball.x - Radius * Scale <= 0 \/ g.ball.x + Radius * Scale >= Width
    THEN [g EXCEPT !.ball.speed_x = -@]
    ELSE g

BallRect(g) ==
    Rect(g.ball.x - Radius * Scale, g.ball.y - Radius * Scale, Radius * 2, Radius * 2)

\* The player's collision without the reflection of the vertical velocity.
PlayerCollisionNoBounce(g) ==
    IF /\ colliderect(Rect(g.player_paddle.x, PlayerY, PaddleW, PaddleH), BallRect(g))
       /\ g.ball.speed_y > 0
    THEN increase_speed([g EXCEPT !.ball.y = PlayerY - Radius * Scale,
                                  !.hits = @ \cup {"player"}])
    ELSE g

\* update, lines 192-199: collision with the player's paddle
PlayerCollision(g) ==
    IF /\ colliderect(Rect(g.player_paddle.x, PlayerY, PaddleW, PaddleH), BallRect(g))
       /\ g.ball.speed_y > 0
    THEN increase_speed([g EXCEPT !.ball.speed_y = -@,
                                  !.ball.y = PlayerY - Radius * Scale,
                                  !.hits = @ \cup {"player"}])
    ELSE g

\* update, lines 203-210: collision with the AI paddle
AiCollision(g) ==
    IF /\ colliderect(Rect(g.ai_paddle.x, AiY * Scale, PaddleW, PaddleH), BallRect(g))
       /\ g.ball.speed_y < 0
    THEN increase_speed([g EXCEPT !.ball.speed_y = -@,
                                  !.ball.y = (AiY + PaddleH + Radius) * Scale,
                                  !.hits = @ \cup {"ai"}])
    ELSE g

\* Scoring that tests the bottom boundary only.
ScoringBottomOnly(g) ==
    IF g.ball.y > Height THEN reset_ball(g) ELSE g

\* update, lines 213-218: scoring
Scoring(g) ==
    IF g.ball.y < 0 THEN reset_ball(g)
    ELSE IF g.ball.y > Height THEN reset_ball(g)
    ELSE g

\* update, lines 222-225: the clamped inputs of the inference
XDiff(g) ==
    Max(-400 * Scale,
        Min(400 * Scale, g.ball.x - (g.ai_paddle.x + (PaddleW * Scale) \div 2)))

YDiff(g) ==
    Max(0, Min(400 * Scale,
               Abs(g.ball.y - (AiY * Scale + (PaddleH * Scale) \div 2))))

\* The except branch substituting one pixel instead of 0.0.
DisplacementNonzero(r) == IF r.error THEN 1 * Scale ELSE r.value

\* update, lines 230-235: the value computed, 0.0 when compute raises
Displacement(r) == IF r.error THEN 0 ELSE r.value

\* update, lines 237-238
MoveAi(g, d) == [g EXCEPT !.ai_paddle.x = clamp(@ + d)]

\* ----------------------------------------------------------------- actions
\* A loop that never tests the flag.
LoopForever(flag) == "events"

\* Game.run, line 257: the loop runs another iteration while running holds;
\* otherwise the program leaves the loop and exits.
LoopTest(flag) == IF flag THEN "events" ELSE "done"

\* Game.handle_events: a QUIT event among the polled events clears running.
HandleEvents ==
    /\ pc = "events"
    /\ budget > 0
    /\ \E quit \in BOOLEAN : running' = IF quit THEN FALSE ELSE running
    /\ pc' = "update"
    /\ budget' = budget - 1
    /\ UNCHANGED <<ball, player_paddle, ai_paddle, paddle_sim, x_diff_val,
                   y_diff_val, move, fuzzy_error, hits, scored, last_hit,
                   bounces, restarted>>

\* Game.update, step after step, then draw, the frame pacer and the loop
\* test of Game.run.
Update ==
    /\ pc = "update"
    /\ \E keys \in Keys :
       \E g1 \in {MovePlayer(Self, keys)} :
       \E g2 \in {BallMove(g1)} :
       \E g3 \in {WallBounce(g2)} :
       \E g4 \in {PlayerCollision(g3)} :
       \E g5 \in {AiCollision(g4)} :
       \E g \in {Scoring(g5)} :
       \E r \in {compute(g.paddle_sim, XDiff(g), YDiff(g))} :
       \E h \in {MoveAi(g, Displacement(r))} :
         /\ ball' = h.ball
         /\ player_paddle' = h.player_paddle
         /\ ai_paddle' = h.ai_paddle
         /\ paddle_sim' = h.paddle_sim
         /\ x_diff_val' = XDiff(g)
         /\ y_diff_val' = YDiff(g)
         /\ move' = Displacement(r)
         /\ fuzzy_error' = r.error
         /\ hits' = h.hits
         /\ scored' = h.scored
         /\ last_hit' = IF h.scored THEN "none"
                        ELSE IF "ai" \in h.hits THEN "ai"
                        ELSE IF "player" \in h.hits THEN "player"
                        ELSE last_hit
         /\ bounces' = IF h.scored THEN 0 ELSE bounces + Cardinality(h.hits)
         /\ restarted' = (restarted \/ h.scored)
    /\ pc' = LoopTest(running)
    /\ UNCHANGED <<running, budget>>

\* The constructed game, about to enter the loop of run.
Start(ticks) ==
    /\ ball = Constructed.ball
    /\ player_paddle = Constructed.player_paddle
    /\ ai_paddle = Constructed.ai_paddle
    /\ paddle_sim = Constructed.paddle_sim
    /\ running = TRUE
    /\ pc = "events"
    /\ x_diff_val = 0
    /\ y_diff_val = 0
    /\ move = 0
    /\ fuzzy_error = FALSE
    /\ hits = {}
    /\ scored = FALSE
    /\ last_hit = "none"
    /\ bounces = 0
    /\ restarted = FALSE
    /\ budget = ticks

Init == Start(MaxTicks)

InitShort == Start(ShortTicks)

Next == HandleEvents \/ Update

Spec == Init /\ [][Next]_vars

\* run calls update as soon as handle_events returns: the single thread
\* never stops between the two.
SpecFair == InitShort /\ [][Next]_vars /\ WF_vars(Update)

\* ------------------------------------------------------- mid-game states
\* States of a game in progress, at the top of the loop.  Every relation the
\* code maintains holds in them: the four speeds have the same magnitude,
\* the start speed (restart speed after a reset) plus one increment per
\* bounce; bounces alternate, the player's first, so the ball moves up
\* exactly after an odd number of them; coordinates of the ball and of the
\* player's paddle are whole multiples of 0.2; paddles lie on the screen;
\* the controller was built for the ball's speed.
MidStarts ==
    {<<FALSE, 0>>, <<FALSE, 1>>, <<FALSE, 20>>, <<FALSE, 21>>,
     <<TRUE, 0>>, <<TRUE, 1>>, <<TRUE, 2>>, <<TRUE, 15>>, <<TRUE, 16>>}

MidBallX == {110, 4000, 7890}

\* Ball about to leave, in mid-field, or about to reach the paddle it moves to.
MidBallYDown == {2500, 3490, 3990}

MidBallYUp == {10, 550, 2500}

MidPaddleX == {10, 3500, 6990}

MidState(st, bx, by, dir, px, ax) ==
    LET s  == (IF st[1] THEN RestartSpeed ELSE StartSpeed) + Growth * st[2]
        up == st[2] % 2 = 1
    IN  /\ ball = [x |-> bx, y |-> by, speed_x |-> dir * s,
                   speed_y |-> IF up THEN -s ELSE s]
        /\ player_paddle = [x |-> px, speed |-> s]
        /\ ai_paddle = [x |-> ax, speed |-> s]
        /\ paddle_sim = create_paddle_simulation(dir * s, s)
        /\ restarted = st[1]
        /\ bounces = st[2]
        /\ last_hit = IF st[2] = 0 THEN "none" ELSE IF up THEN "player" ELSE "ai"

InitMid ==
    /\ \E st \in MidStarts, bx \in MidBallX, dir \in {-1, 1},
          px \in MidPaddleX, ax \in MidPaddleX :
         \E by \in (IF st[2] % 2 = 1 THEN MidBallYUp ELSE MidBallYDown) :
            MidState(st, bx, by, dir, px, ax)
    /\ running = TRUE
    /\ pc = "events"
    /\ x_diff_val = 0
    /\ y_diff_val = 0
    /\ move = 0
    /\ fuzzy_error = FALSE
    /\ hits = {}
    /\ scored = FALSE
    /\ budget = MidTicks

SpecMid == InitMid /\ [][Next]_vars

\* --------------------------------------------- the controller on its own
\* The inference of update (lines 227-235) applied to chosen inputs, for a
\* controller built for a chosen speed.
ProbeSpeeds == {20, 22, 30, 58, 60, 62, 64}

ProbeX ==
    {-4000, -3999, -3000, -2000, -1000, -110, -100, -50, -10, -1, 0,
     1, 10, 50, 100, 110, 1000, 2000, 3000, 3999, 4000}

ProbeY == {0, 100, 1990, 2000, 2010, 2500, 3000, 3625, 3999, 4000}

InitFuzzy ==
    /\ \E s \in ProbeSpeeds :
         /\ paddle_sim = create_paddle_simulation(s, s)
         /\ ball = [Constructed.ball EXCEPT !.speed_x = s, !.speed_y = s]
         /\ player_paddle = [Constructed.player_paddle EXCEPT !.speed = s]
         /\ ai_paddle = [Constructed.ai_paddle EXCEPT !.speed = s]
    /\ x_diff_val \in ProbeX
    /\ y_diff_val \in ProbeY
    /\ running = TRUE
    /\ pc = "infer"
    /\ move = 0
    /\ fuzzy_error = FALSE
    /\ hits = {}
    /\ scored = FALSE
    /\ last_hit = "none"
    /\ bounces = 0
    /\ restarted = FALSE
    /\ budget = 0

Infer ==
    /\ pc = "infer"
    /\ \E r \in {compute(paddle_sim, x_diff_val, y_diff_val)} :
         /\ move' = Displacement(r)
         /\ fuzzy_error' = r.error
    /\ pc' = "inferred"
    /\ UNCHANGED <<ball, player_paddle, ai_paddle, paddle_sim, running,
                   x_diff_val, y_diff_val, hits, scored, last_hit, bounces,
                   restarted, budget>>

SpecFuzzy == InitFuzzy /\ [][Infer]_vars

\* ------------------------------------------------------------------ claims
Centre == [x |-> 400 * Scale, y |-> 200 * Scale, speed_x |-> 3 * Scale, speed_y |-> 3 * Scale]

\* C1: in every state, hence at every inference, the controller in use is
\* the one built for the current ball speed: its output sets are scaled by
\* |ball.speed_x|, and its centre set has half-width 1 above speed 6 (an
\* offset of 5 is then outside it) and half-width 10 otherwise (an offset of
\* 5 is then inside it).
C1_ControllerCurrent ==
    /\ paddle_sim.vel_max = Abs(ball.speed_x)
    /\ Abs(ball.speed_x) > 6 * Scale =>
          /\ paddle_sim.center = 1 * Scale
          /\ x_center(5 * Scale, paddle_sim.center) = 0
    /\ Abs(ball.speed_x) <= 6 * Scale =>
          /\ paddle_sim.center = 10 * Scale
          /\ x_center(5 * Scale, paddle_sim.center) > 0

\* A bounce has just raised the speed from 6.0 to 6.2 and narrowed the centre.
C1_Witness ==
    /\ hits # {}
    /\ Abs(ball.speed_x) = 62
    /\ paddle_sim.center = 1 * Scale
    /\ pc = "events"

\* C2: an update whose inference raises (no rule fires) moves the AI paddle
\* by exactly 0, leaves running as it was and goes on to the next iteration
\* of the loop.
C2_ZeroFallback ==
    [][(pc = "update" /\ fuzzy_error') =>
          /\ move' = 0
          /\ ai_paddle'.x = (IF scored' THEN 400 * Scale ELSE ai_paddle.x)
          /\ running' = running
          /\ pc' = (IF running THEN "events" ELSE "done")]_vars

\* An inference has raised, and the loop is at the top of its next iteration.
C2_Witness ==
    /\ fuzzy_error
    /\ Abs(x_diff_val) = 400 * Scale
    /\ move = 0
    /\ pc = "events"
    /\ running
    /\ budget > 0

\* C3: both paddles stay on the screen: 0 <= x <= screen_width - width.
C3_PaddlesOnScreen ==
    /\ 0 <= player_paddle.x /\ player_paddle.x <= (ScreenW - PaddleW) * Scale
    /\ 0 <= ai_paddle.x /\ ai_paddle.x <= (ScreenW - PaddleW) * Scale

\* Both clamps have saturated: the player moved right from 699 to the right
\* edge, the AI paddle was moved left from 1 to the left edge.
C3_Witness ==
    /\ budget = MidTicks - 1
    /\ pc = "events"
    /\ player_paddle.x = (ScreenW - PaddleW) * Scale
    /\ ai_paddle.x = 0
    /\ move < -1 * Scale

\* C4: an update resets the game exactly when the ball, advanced and with
\* no paddle collision, is beyond the top (y < 0) or the bottom (y > 400);
\* the reset puts the ball at (400, 200) with velocity (3, 3) and both
\* paddle speeds at 3.0.
C4_Scoring ==
    [][pc = "update" =>
          LET y1 == ball.y + ball.speed_y
              crossed == hits' = {} /\ (y1 < 0 \/ y1 > ScreenH * Scale)
          IN  /\ scored' <=> crossed
              /\ crossed =>
                    /\ ball' = Centre
                    /\ player_paddle'.speed = 3 * Scale
                    /\ ai_paddle'.speed = 3 * Scale
              /\ ~crossed => ball'.x = ball.x + ball.speed_x]_vars

\* A reset from a speed other than 3.0.
C4_Witness ==
    /\ scored
    /\ ball = Centre
    /\ budget = MidTicks - 1
    /\ pc = "events"

\* C5: after a scoring reset each paddle is where it was created (the AI
\* paddle then displaced by that update's inference).
C5_StartCoordinates ==
    scored =>
       /\ player_paddle.x = Constructed.player_paddle.x
       /\ ai_paddle.x = clamp(Constructed.ai_paddle.x + move)

\* C6 as stated: no step lowers a paddle's speed.
C6_Monotonic ==
    [][/\ player_paddle'.speed >= player_paddle.speed
       /\ ai_paddle'.speed >= ai_paddle.speed]_vars

\* C6, amended: a step that is not a scoring reset never lowers a paddle's
\* speed; a scoring reset sets both speeds to 3.0 whatever they were.
C6_MonotonicBetweenResets ==
    [][IF pc = "update" /\ scored'
       THEN player_paddle'.speed = RestartSpeed /\ ai_paddle'.speed = RestartSpeed
       ELSE /\ player_paddle'.speed >= player_paddle.speed
            /\ ai_paddle'.speed >= ai_paddle.speed]_vars

\* A bounce has raised the speeds above the restart speed.
C6_Witness ==
    /\ hits # {}
    /\ restarted
    /\ player_paddle.speed > RestartSpeed
    /\ ai_paddle.speed > RestartSpeed

C8_Monotone ==
    (pc = "inferred" /\ 200 * Scale <= y_diff_val /\ y_diff_val < 400 * Scale) =>
       /\ x_diff_val <= -10 * Scale => move < 0
       /\ x_diff_val = 0 => move = 0
       /\ x_diff_val >= 10 * Scale => move > 0

\* C8, amended: in the far region the command lies in [-V, -0.9 V] for an
\* offset in (-400, -10], is 0 at offset 0 and lies in [0.9 V, V] for an
\* offset in [10, 400); at exactly -400 and +400 no rule fires and the
\* command is 0.
C8_MonotoneInside ==
    (pc = "inferred" /\ 200 * Scale <= y_diff_val /\ y_diff_val < 400 * Scale) =>
       LET V == paddle_sim.vel_max
       IN  /\ (-400 * Scale < x_diff_val /\ x_diff_val <= -10 * Scale) =>
                 /\ ~fuzzy_error
                 /\ -V <= move /\ 10 * move <= -9 * V + 10
           /\ x_diff_val = 0 => (~fuzzy_error /\ move = 0)
           /\ (10 * Scale <= x_diff_val /\ x_diff_val < 400 * Scale) =>
                 /\ ~fuzzy_error
                 /\ 10 * move >= 9 * V - 10 /\ move <= V
           /\ Abs(x_diff_val) = 400 * Scale => (fuzzy_error /\ move = 0)

\* A far ball strongly to the left of the paddle: a negative command.
C8_Witness ==
    /\ pc = "inferred"
    /\ y_diff_val = 250 * Scale
    /\ x_diff_val = -300 * Scale
    /\ move < 0

\* C9 as stated: once the quit is observed no step of the tick changes the
\* ball or a paddle any more.
C9_NoStepAfterQuit ==
    [][~running => UNCHANGED <<ball, player_paddle, ai_paddle>>]_vars

\* C9, amended: the update of the tick that observed the quit still runs,
\* once; it is the last step: the loop is then left, nothing runs after it,
\* and a run that observed the quit terminates.
C9_QuitEndsLoop ==
    /\ [][(~running' /\ pc = "events") => pc' = "update"]_vars
    /\ [][(~running /\ pc = "update") => pc' = "done"]_vars
    /\ [][pc # "done"]_vars
    /\ (~running) ~> (pc = "done")

\* The loop has been left after a quit.
C9_Witness ==
    /\ ~running
    /\ pc = "done"

\* C10: a paddle registers a collision only while the ball moves toward it,
\* reflecting the ball and putting it flush against the paddle; the paddle
\* of the latest collision registers no other one before the other paddle
\* or a reset has; an update grows the speeds at most once.
C10_NoRecollision ==
    [][pc = "update" =>
          /\ last_hit = "player" => "player" \notin hits'
          /\ last_hit = "ai" => "ai" \notin hits'
          /\ Cardinality(hits') <= 1
          /\ "player" \in hits' =>
                /\ ball.speed_y > 0 /\ ball'.speed_y < 0
                /\ ball'.y = (ScreenH - 40 - Radius) * Scale
          /\ "ai" \in hits' =>
                /\ ball.speed_y < 0 /\ ball'.speed_y > 0
                /\ ball'.y = (30 + 15 + Radius) * Scale]_vars

\* The tick after a collision with the player's paddle: no collision.
C10_Witness ==
    /\ last_hit = "player"
    /\ bounces = 3
    /\ hits = {}
    /\ pc = "events"

====
